---- MODULE Spec2Model ----
(***************************************************************************)
(* A model of pyfiberamp's steady-state pipeline:                          *)
(*   - InitialGuessMaker (src/fiberamp/initial_guess_maker.py),            *)
(*   - ActiveFiber's effective-area dispatch and channel factories         *)
(*     (src/fiberamp/fibers/active_fiber.py),                              *)
(*   - FiberAmplifierSimulation[WithRaman] (src/pyfiberamp/...).           *)
(* Powers are exact rationals [n, d]; arrays are sequences (rows) of       *)
(* sequences (columns); numpy slices are half-open 0-based [start, stop).  *)
(***************************************************************************)
EXTENDS Integers, Sequences, FiniteSets, TLC

VARIABLES
    maker,        \* the InitialGuessMaker instance (its fields), or NoMaker
    guess_out,    \* outcome of the last make_guess() on that instance
    fiber,        \* the ActiveFiber's mutable field effective_area_type
    area_out,     \* outcome of the last nonlinear_effective_area(freq)
    made,         \* outcome of the last channel-factory call
    channels,     \* the simulation's Channels registry (7 category lists)
    raman_flags,  \* raman_is_included, backward_raman_allowed
    heap,         \* slice-map dict objects, by identity
    sim_slices,   \* self.slices: a reference into heap
    results,      \* every SimulationResult returned so far
    bvp_calls,    \* how many solve_bvp calls so far, and the arguments of the last
    last_call,    \* the last simulation method called and how it ended
    default_params,  \* the module-level dict object DEFAULT_GUESS_PARAMS
    makers,       \* every InitialGuessMaker built so far (fields hold references)
    guesses       \* outcome of the last make_guess() on each of them

vars == <<maker, guess_out, fiber, area_out, made, channels, raman_flags,
          heap, sim_slices, results, bvp_calls, last_call,
          default_params, makers, guesses>>

guess_vars == <<maker, guess_out>>
fiber_vars == <<fiber, area_out, made>>
sim_vars   == <<channels, raman_flags, heap, sim_slices, results, bvp_calls, last_call>>
shared_vars == <<default_params, makers, guesses>>

\* ------------------------------------------------------------------ bounds
\* Largest total number of channels of a drawn guess-maker input.
MaxChannels == 3
\* Largest number of grid points of a drawn z grid (the smallest is 2).
MaxGridPoints == 3
\* Largest base input power (W) of a drawn input-power vector.
MaxBasePower == 1

\* ---------------------------------------------------------------- rationals
Abs(x) == IF x < 0 THEN -x ELSE x

RECURSIVE GCD(_, _)
GCD(a, b) == IF b = 0 THEN a ELSE GCD(b, a % b)

\* The rational n/d in lowest terms with a positive denominator (d # 0).
Rat(n, d) ==
    LET g == GCD(Abs(n), Abs(d))
        s == IF d < 0 THEN -1 ELSE 1
    IN  [n |-> (s * n) \div g, d |-> (s * d) \div g]

RInt(k) == [n |-> k, d |-> 1]
RZero == RInt(0)
\* Sums over the least common denominator and products reduced crosswise, so
\* that intermediate values stay small.
RAdd(x, y) ==
    LET g == GCD(x.d, y.d)
    IN  Rat(x.n * (y.d \div g) + y.n * (x.d \div g), (x.d \div g) * y.d)
RNeg(x) == [n |-> -x.n, d |-> x.d]
RSub(x, y) == RAdd(x, RNeg(y))
RMul(x, y) ==
    LET g1 == GCD(Abs(x.n), y.d)
        g2 == GCD(Abs(y.n), x.d)
    IN  IF x.n = 0 \/ y.n = 0 THEN [n |-> 0, d |-> 1]
        ELSE Rat((x.n \div g1) * (y.n \div g2), (x.d \div g2) * (y.d \div g1))
RDiv(x, y) == RMul(x, IF y.n < 0 THEN [n |-> -y.d, d |-> -y.n] ELSE [n |-> y.d, d |-> y.n])
RIsZero(x) == x.n = 0

RECURSIVE RSum(_)
RSum(xs) == IF xs = <<>> THEN RZero ELSE RAdd(Head(xs), RSum(Tail(xs)))

\* An array entry (a float64): a number, a symbolic start*exp(ln(ratio)*frac), or NaN.
Num(x) == [k |-> "num", a |-> x, b |-> RZero, c |-> RZero]
ExpVal(start, ratio, frac) == [k |-> "exp", a |-> start, b |-> ratio, c |-> frac]
NaN == [k |-> "nan", a |-> RZero, b |-> RZero, c |-> RZero]

Min(a, b) == IF a < b THEN a ELSE b
Max(a, b) == IF a > b THEN a ELSE b
\* ------------------------------------------------------- outcomes of a call
Ok(v) == [ok |-> TRUE, exc |-> "none", val |-> v]
Raise(e) == [ok |-> FALSE, exc |-> e, val |-> <<>>]

\* ------------------------------------------------------ InitialGuessMaker
Categories ==
    <<"signal_slice", "co_pump_slice", "counter_pump_slice", "forward_ase_slice",
      "backward_ase_slice", "forward_raman_slice", "backward_raman_slice">>

DEFAULT_GUESS_PARAMS ==
    [signal_conversion_guess |-> Rat(1, 2),
     signal_gain_shape |-> "linear",
     pump_absorption_factor |-> Rat(1, 100),
     ase_output_power |-> Rat(1, 1000)]

\* numpy basic slicing arr[start:stop] of a 1-D array or of the rows of a 2-D
\* array: the indices (1-based here) the slice selects; bounds past the end are
\* clipped, never an error.
SliceIndices(n, sl) ==
    LET lo == Min(sl.start, n)
        hi == Min(sl.stop, n)
    IN  IF hi <= lo THEN <<>> ELSE [i \in 1..(hi - lo) |-> lo + i]

Take(arr, sl) ==
    LET idx == SliceIndices(Len(arr), sl)
    IN  [i \in 1..Len(idx) |-> arr[idx[i]]]

\* np.zeros((nrows, ncols))
zeros(shape) == [i \in 1..shape[1] |-> [j \in 1..shape[2] |-> Num(RZero)]]

\* start * k and start + k elementwise
Scale(k, xs) == [i \in 1..Len(xs) |-> RMul(k, xs[i])]
Shift(k, xs) == [i \in 1..Len(xs) |-> RAdd(k, xs[i])]
\* np.full_like(xs, v) on a float array
full_like(xs, v) == [i \in 1..Len(xs) |-> v]

\* helper_funcs.linspace_2d(start, end, length): row i runs linearly from
\* start[i] to end[i] in `length` columns.
linspace_2d(start, end, length) ==
    [i \in 1..Len(start) |->
        [j \in 1..length |->
            Num(RAdd(start[i],
                     RDiv(RMul(RInt(j - 1), RSub(end[i], start[i])), RInt(length - 1))))]]

InitialGuessMaker(input_powers, slices, z, params) ==
    [input_powers |-> input_powers,
     signal_powers |-> Take(input_powers, slices.signal_slice),
     co_pump_powers |-> Take(input_powers, slices.co_pump_slice),
     counter_pump_powers |-> Take(input_powers, slices.counter_pump_slice),
     forward_ase_powers |-> Take(input_powers, slices.forward_ase_slice),
     backward_ase_powers |-> Take(input_powers, slices.backward_ase_slice),
     forward_raman_powers |-> Take(input_powers, slices.forward_raman_slice),
     backward_raman_powers |-> Take(input_powers, slices.backward_raman_slice),
     slices |-> slices,
     z |-> z,
     params |-> params]

\* faulty variant: the two dimensions swapped
guess_shape_transposed(self) == <<Len(self.z), Len(self.input_powers)>>

guess_shape(self) == <<Len(self.input_powers), Len(self.z)>>

linear_guess(self, start, end) == linspace_2d(start, end, Len(self.z))

\* start * exp(log(end / start) / z[-1] * z), in float64: a zero start (or a
\* zero z[-1]) divides by zero, which numpy answers with inf/nan and a warning,
\* and the row is NaN; exp(0) is exactly 1.
exponential_guess(self, start, end) ==
    LET zmax == self.z[Len(self.z)]
    IN  [i \in 1..Len(start) |->
            [j \in 1..Len(self.z) |->
                IF RIsZero(start[i]) \/ RIsZero(zmax) THEN NaN
                ELSE IF RIsZero(self.z[j]) \/ end[i] = start[i] THEN Num(start[i])
                ELSE ExpVal(start[i], RDiv(end[i], start[i]), RDiv(self.z[j], zmax))]]

\* faulty variant: an unrecognized shape falls back to the linear guess
make_signal_guess_fallback(self) ==
    LET total_pump_power == RAdd(RSum(self.co_pump_powers), RSum(self.counter_pump_powers))
        signal_start == self.signal_powers
        signal_end == Shift(RMul(self.params.signal_conversion_guess, total_pump_power),
                            signal_start)
    IN  IF self.params.signal_gain_shape = "exponential"
            THEN Ok(exponential_guess(self, signal_start, signal_end))
        ELSE Ok(linear_guess(self, signal_start, signal_end))

make_signal_guess(self) ==
    LET total_pump_power == RAdd(RSum(self.co_pump_powers), RSum(self.counter_pump_powers))
        signal_start == self.signal_powers
        signal_end == Shift(RMul(self.params.signal_conversion_guess, total_pump_power),
                            signal_start)
        signal_gain_shape == self.params.signal_gain_shape
    IN  IF signal_gain_shape = "linear"
            THEN Ok(linear_guess(self, signal_start, signal_end))
        ELSE IF signal_gain_shape = "exponential"
            THEN Ok(exponential_guess(self, signal_start, signal_end))
        ELSE Raise("RuntimeError")

make_co_pump_guess(self) ==
    LET co_pump_start == self.co_pump_powers
        co_pump_end == Scale(self.params.pump_absorption_factor, co_pump_start)
    IN  linear_guess(self, co_pump_start, co_pump_end)

\* faulty variant: the counter-pump guess not mirrored (start and end as for a co-pump)
make_counter_pump_guess_unmirrored(self) ==
    LET counter_pump_start == self.counter_pump_powers
        counter_pump_end == Scale(self.params.pump_absorption_factor, self.counter_pump_powers)
    IN  linear_guess(self, counter_pump_start, counter_pump_end)

make_counter_pump_guess(self) ==
    LET counter_pump_start == Scale(self.params.pump_absorption_factor, self.counter_pump_powers)
        counter_pump_end == self.counter_pump_powers
    IN  linear_guess(self, counter_pump_start, counter_pump_end)

make_forward_ase_guess(self) ==
    LET forward_ase_start == self.forward_ase_powers
        forward_ase_end == full_like(forward_ase_start, self.params.ase_output_power)
    IN  linear_guess(self, forward_ase_start, forward_ase_end)

make_backward_ase_guess(self) ==
    LET backward_ase_end == self.backward_ase_powers
        backward_ase_start == full_like(backward_ase_end, self.params.ase_output_power)
    IN  linear_guess(self, backward_ase_start, backward_ase_end)

make_forward_raman_guess(self) ==
    LET forward_raman_start == self.forward_raman_powers
        forward_raman_end == Scale(RInt(2), self.forward_raman_powers)
    IN  linear_guess(self, forward_raman_start, forward_raman_end)

make_backward_raman_guess(self) ==
    LET backward_raman_start == self.backward_raman_powers
        backward_raman_end == self.backward_raman_powers
    IN  linear_guess(self, backward_raman_start, backward_raman_end)

\* faulty variant: an assignment to a slice that selects no row is an error
SetRows_rejects_empty(guess, sl, value) ==
    LET idx == SliceIndices(Len(guess), sl)
        pos(i) == CHOOSE p \in 1..Len(idx) : idx[p] = i
        hit(i) == \E p \in 1..Len(idx) : idx[p] = i
    IN  IF Len(idx) > 0 /\ Len(value) = Len(idx)
            THEN Ok([i \in 1..Len(guess) |-> IF hit(i) THEN value[pos(i)] ELSE guess[i]])
        ELSE Raise("ValueError")

\* guess[sl] = value for 2-D arrays: the rows the slice selects are replaced;
\* numpy broadcasts a one-row value over them and raises ValueError for any
\* other difference in the number of rows.
SetRows(guess, sl, value) ==
    LET idx == SliceIndices(Len(guess), sl)
        pos(i) == CHOOSE p \in 1..Len(idx) : idx[p] = i
        hit(i) == \E p \in 1..Len(idx) : idx[p] = i
    IN  IF Len(value) = Len(idx)
            THEN Ok([i \in 1..Len(guess) |-> IF hit(i) THEN value[pos(i)] ELSE guess[i]])
        ELSE IF Len(value) = 1
            THEN Ok([i \in 1..Len(guess) |-> IF hit(i) THEN value[1] ELSE guess[i]])
        ELSE Raise("ValueError")

\* One statement `guess[slices[key]] = <right-hand side>` of make_guess: the
\* right-hand side is evaluated first; an exception ends make_guess.
AssignRows(acc, sl, rhs) ==
    IF ~acc.ok THEN acc
    ELSE IF ~rhs.ok THEN rhs
    ELSE SetRows(acc.val, sl, rhs.val)

make_guess(self) ==
    LET g0 == Ok(zeros(guess_shape(self)))
        g1 == AssignRows(g0, self.slices.signal_slice, make_signal_guess(self))
        g2 == AssignRows(g1, self.slices.co_pump_slice, Ok(make_co_pump_guess(self)))
        g3 == AssignRows(g2, self.slices.counter_pump_slice, Ok(make_counter_pump_guess(self)))
        g4 == AssignRows(g3, self.slices.forward_ase_slice, Ok(make_forward_ase_guess(self)))
        g5 == AssignRows(g4, self.slices.backward_ase_slice, Ok(make_backward_ase_guess(self)))
        g6 == AssignRows(g5, self.slices.forward_raman_slice, Ok(make_forward_raman_guess(self)))
        g7 == AssignRows(g6, self.slices.backward_raman_slice, Ok(make_backward_raman_guess(self)))
    IN  g7
\* --------------------------------------------- inputs of the guess maker
\* Channels.get_slices(): the categories' contiguous index ranges, in the
\* fixed category order, for the given number of channels per category.
RECURSIVE SumTo(_, _)
SumTo(counts, c) == IF c = 0 THEN 0 ELSE counts[c] + SumTo(counts, c - 1)

PartitionSlices(counts) ==
    [key \in {Categories[c] : c \in 1..7} |->
        LET c == CHOOSE x \in 1..7 : Categories[x] = key
        IN  [start |-> SumTo(counts, c - 1), stop |-> SumTo(counts, c)]]

\* np.linspace(0, length, npoints)
linspace(length, npoints) ==
    [j \in 1..npoints |-> RDiv(RMul(RInt(j - 1), length), RInt(npoints - 1))]

\* The channel counts drawn: every vector of at most MaxChannels channels, and
\* the one with a channel in every category.
CountVectors ==
    {cv \in [1..7 -> 0..MaxChannels] : SumTo(cv, 7) <= MaxChannels}
        \cup {[c \in 1..7 |-> 1]}

\* Distinct powers base, base + 1, ... so that a misplaced row shows.
PowerVector(base, n) == [i \in 1..n |-> RInt(base + i - 1)]

GainShapes == {"linear", "exponential", "quadratic"}

\* A slice map that is not the registry's: one bound moved by one.
Skews == {"exact", "past_end", "gap", "overlap"}

NonEmpty(counts) == {c \in 1..7 : counts[c] > 0}
FirstCat(counts) == CHOOSE c \in NonEmpty(counts) : \A d \in NonEmpty(counts) : c <= d
LastCat(counts) == CHOOSE c \in NonEmpty(counts) : \A d \in NonEmpty(counts) : d <= c

Skewed(counts, skew) ==
    LET exact == PartitionSlices(counts)
        last == Categories[7]
    IN  IF skew = "past_end"
            THEN [exact EXCEPT ![last].stop = @ + 1]
        ELSE IF skew = "gap" /\ NonEmpty(counts) # {}
            THEN [exact EXCEPT ![Categories[FirstCat(counts)]].start = @ + 1]
        ELSE IF skew = "overlap" /\ NonEmpty(counts) # {} /\ LastCat(counts) # FirstCat(counts)
            THEN [exact EXCEPT ![Categories[LastCat(counts)]].start = @ - 1]
        ELSE exact

\* How often the slices of a map select index i (0-based).
Cover(slices, i) ==
    Cardinality({c \in 1..7 : slices[Categories[c]].start <= i /\ i < slices[Categories[c]].stop})

\* The slice map partitions [0, n): every index is selected exactly once and
\* no slice reaches past the last one.
IsPartition(slices, n) ==
    /\ \A i \in 0..(n - 1) : Cover(slices, i) = 1
    /\ \A c \in 1..7 : slices[Categories[c]].stop <= n

\* ------------------------------------------------- the guess maker's life
NoMaker == [made |-> FALSE]
NotCalled == [called |-> FALSE, res |-> Raise("none")]

\* fiber length of the drawn z grids, np.linspace(0, fiber.length, npoints)
GridLength == RInt(2)

Construct ==
    /\ ~maker.made
    /\ \E cv \in CountVectors, base \in 0..MaxBasePower, npoints \in 2..MaxGridPoints,
          shape \in GainShapes, skew \in Skews :
          maker' = [made |-> TRUE,
                    self |-> InitialGuessMaker(
                                PowerVector(base, SumTo(cv, 7)),
                                Skewed(cv, skew),
                                linspace(GridLength, npoints),
                                [DEFAULT_GUESS_PARAMS EXCEPT !.signal_gain_shape = shape])]
    /\ guess_out' = NotCalled
    /\ UNCHANGED <<fiber_vars, sim_vars, shared_vars>>

MakeGuess ==
    /\ maker.made
    /\ ~guess_out.called
    /\ guess_out' = [called |-> TRUE, res |-> make_guess(maker.self)]
    /\ UNCHANGED <<maker, fiber_vars, sim_vars, shared_vars>>

Discard ==
    /\ guess_out.called
    /\ maker' = NoMaker
    /\ guess_out' = NotCalled
    /\ UNCHANGED <<fiber_vars, sim_vars, shared_vars>>
\* ------------------------------------- several makers, one default dict
\* How many InitialGuessMaker instances are built.
MaxMakers == 3

\* The params argument of a constructor call: left out, or a dict of the
\* caller's own.
NoParams == [passed |-> FALSE, val |-> DEFAULT_GUESS_PARAMS]
OwnParams(shape) ==
    [passed |-> TRUE, val |-> [DEFAULT_GUESS_PARAMS EXCEPT !.signal_gain_shape = shape]]
ParamsArgs == {NoParams, OwnParams("exponential"), OwnParams("quadratic")}

\* faulty variant: the caller's params merged into the shared default dict
\* (self.params = DEFAULT_GUESS_PARAMS; self.params.update(params))
bind_params_merged(default, given) ==
    [default |-> IF given.passed THEN given.val ELSE default,
     shared |-> TRUE,
     own |-> given.val]

\* `params=DEFAULT_GUESS_PARAMS` in the signature and `self.params = params`:
\* a call without params binds self.params to the one dict object the default
\* was evaluated to, shared by every such instance; nothing is copied and
\* nothing is written.
bind_params(default, given) ==
    [default |-> default,
     shared |-> ~given.passed,
     own |-> given.val]

\* The channel counts, powers and grid the makers are built from.
SharedCounts == {[c \in 1..7 |-> 1], [c \in 1..7 |-> IF c <= 3 THEN 1 ELSE 0]}
SharedGrid == linspace(GridLength, 2)

\* self.params of instance k, read through the reference.
params_of(k) == IF makers[k].shared THEN default_params ELSE makers[k].own

\* Instance k as make_guess() sees it: input_powers and slices are the
\* caller's objects, the per-category powers are views into input_powers.
self_of(k) ==
    InitialGuessMaker(makers[k].input_powers, makers[k].slices, makers[k].z, params_of(k))

ConstructWith(given) ==
    /\ Len(makers) < MaxMakers
    /\ \E cv \in SharedCounts :
          LET bound == bind_params(default_params, given)
          IN  /\ default_params' = bound.default
              /\ makers' = Append(makers,
                                  [input_powers |-> PowerVector(1, SumTo(cv, 7)),
                                   slices |-> PartitionSlices(cv),
                                   z |-> SharedGrid,
                                   shared |-> bound.shared,
                                   own |-> bound.own])
    /\ guesses' = Append(guesses, NotCalled)
    /\ UNCHANGED <<guess_vars, fiber_vars, sim_vars>>

\* InitialGuessMaker(input_powers, slices, z)
ConstructDefault == ConstructWith(NoParams)

\* InitialGuessMaker(input_powers, slices, z, params)
ConstructWithParams == \E given \in ParamsArgs \ {NoParams} : ConstructWith(given)

\* make_guess() on any instance, any number of times: every statement of
\* make_guess and its helpers builds a new array (no augmented assignment, no
\* item assignment on self.params, self.input_powers or self.slices).
MakeGuessOn ==
    /\ \E k \in 1..Len(makers) :
          guesses' = [guesses EXCEPT ![k] = [called |-> TRUE, res |-> make_guess(self_of(k))]]
    /\ UNCHANGED <<default_params, makers, guess_vars, fiber_vars, sim_vars>>

NextShared == ConstructDefault \/ ConstructWithParams \/ MakeGuessOn
\* ------------------------------------------------------------ ActiveFiber
\* An uninterpreted value: the result of a helper applied to its arguments.
Term(op, args) == [op |-> op, args |-> args]
None == Term("None", <<>>)

\* helper_funcs.wl_to_freq / freq_to_wl: c / x, with wavelengths in nm and
\* frequencies in THz (c = 3 * 10^5 nm THz).
wl_to_freq(wl) == RDiv(RInt(300000), wl)
freq_to_wl(freq) == RDiv(RInt(300000), freq)
\* helper_funcs.wl_bw_to_freq_bw(wl_bandwidth, wl): c * bw / wl^2
wl_bw_to_freq_bw(wl_bandwidth, wl) == RDiv(RMul(RInt(300000), wl_bandwidth), RMul(wl, wl))

\* optical_channel.OpticalChannel(frequency, frequency_bandwidth, power,
\* direction, mfd, gain, absorption, loss)
OpticalChannel(frequency, frequency_bandwidth, power, direction, mfd, gain, absorption, loss) ==
    [frequency |-> frequency,
     frequency_bandwidth |-> frequency_bandwidth,
     input_power |-> power,
     direction |-> direction,
     mode_field_diameter |-> mfd,
     gain_coefficient |-> gain,
     absorption_coefficient |-> absorption,
     background_loss |-> loss]

\* ActiveFiber.__init__: the fields the modelled methods read. overlap is None
\* (use_automatic_overlap, as __init__ leaves it) unless a constant is set.
ActiveFiber(length, core_r, background_loss, core_na) ==
    [length |-> length,
     core_r |-> core_r,
     background_loss |-> background_loss,
     core_na |-> core_na,
     overlap |-> None,
     effective_area_type |-> "core_area"]

overlap_is_constant(f) == f.overlap # None

make_single_overlap(f, mode_field_radius) ==
    IF overlap_is_constant(f) THEN f.overlap
    ELSE IF mode_field_radius.n > 0
        THEN Term("overlap_integral", <<f.core_r, mode_field_radius>>)
    ELSE None

get_channel_gain(f, freq, mode_field_radius) ==
    Term("gain_cs_interp * overlap * ion_number_density",
         <<freq, make_single_overlap(f, mode_field_radius)>>)

get_channel_absorption(f, freq, mode_field_radius) ==
    Term("absorption_cs_interp * overlap * ion_number_density",
         <<freq, make_single_overlap(f, mode_field_radius)>>)

\* helper_funcs.fundamental_mode_mfd_petermann_2(wl, core_r, core_na): a
\* positive diameter; here 2 * core_r * (1 + wl / 1000).
fundamental_mode_mfd_petermann_2(wl, core_r, core_na) ==
    RMul(RMul(RInt(2), core_r), RAdd(RInt(1), RDiv(wl, RInt(1000))))

get_mfd(f, freq, preset_mfd) ==
    IF preset_mfd.n > 0 THEN preset_mfd
    ELSE fundamental_mode_mfd_petermann_2(freq_to_wl(freq), f.core_r, f.core_na)

core_area(f) == Term("core_r**2 * pi", <<f.core_r>>)

effective_area_from_core_area(f, freq) == Ok(Term("core_area * ones_like", <<core_area(f), freq>>))

effective_area_from_gaussian_approximation(f, freq) ==
    Ok(Term("effective_area_from_mfd", <<freq_to_wl(freq), f.core_r, f.core_na>>))

\* faulty variant: the Bessel mode approximated by the Gaussian one
effective_area_from_bessel_approximated(f, freq) ==
    effective_area_from_gaussian_approximation(f, freq)

effective_area_from_bessel_distribution(f, freq) == Raise("NotImplementedError")

\* The if/elif chain has no else: any other type falls off the end and the
\* call returns None.
nonlinear_effective_area(f, freq) ==
    IF f.effective_area_type = "core_area"
        THEN effective_area_from_core_area(f, freq)
    ELSE IF f.effective_area_type = "gaussian"
        THEN effective_area_from_gaussian_approximation(f, freq)
    ELSE IF f.effective_area_type = "bessel"
        THEN effective_area_from_bessel_distribution(f, freq)
    ELSE Ok(None)

finite_bandwidth_gain(f, center_frequency, frequency_bandwidth, mode_field_radius) ==
    LET start_frequency == RSub(center_frequency, RDiv(frequency_bandwidth, RInt(2)))
        end_frequency == RAdd(center_frequency, RDiv(frequency_bandwidth, RInt(2)))
        start_gain == get_channel_gain(f, start_frequency, mode_field_radius)
        end_gain == get_channel_gain(f, end_frequency, mode_field_radius)
    IN  Term("mean", <<start_gain, end_gain>>)

finite_bandwidth_absorption(f, center_frequency, frequency_bandwidth, mode_field_radius) ==
    LET start_frequency == RSub(center_frequency, RDiv(frequency_bandwidth, RInt(2)))
        end_frequency == RAdd(center_frequency, RDiv(frequency_bandwidth, RInt(2)))
        start_absorption == get_channel_absorption(f, start_frequency, mode_field_radius)
        end_absorption == get_channel_absorption(f, end_frequency, mode_field_radius)
    IN  Term("mean", <<start_absorption, end_absorption>>)

create_in_core_single_frequency_channel(f, wl, power, preset_mfd, direction) ==
    LET frequency == wl_to_freq(wl)
        frequency_bandwidth == RZero
        mfd == get_mfd(f, frequency, preset_mfd)
        mode_field_radius == RDiv(mfd, RInt(2))
        gain == get_channel_gain(f, frequency, mode_field_radius)
        absorption == get_channel_absorption(f, frequency, mode_field_radius)
        loss == f.background_loss
    IN  OpticalChannel(frequency, frequency_bandwidth, power, direction, mfd, gain, absorption, loss)

create_in_core_finite_bandwidth_channel(f, wl, wl_bandwidth, power, preset_mfd, direction) ==
    LET center_frequency == wl_to_freq(wl)
        frequency_bandwidth == wl_bw_to_freq_bw(wl_bandwidth, wl)
        mfd == get_mfd(f, center_frequency, preset_mfd)
        mode_field_radius == RDiv(mfd, RInt(2))
        gain == finite_bandwidth_gain(f, center_frequency, frequency_bandwidth, mode_field_radius)
        absorption == finite_bandwidth_absorption(f, center_frequency, frequency_bandwidth,
                                                  mode_field_radius)
        loss == f.background_loss
    IN  OpticalChannel(center_frequency, frequency_bandwidth, power, direction, mfd, gain,
                       absorption, loss)

create_in_core_forward_single_frequency_channel(f, wl, power, preset_mfd) ==
    create_in_core_single_frequency_channel(f, wl, power, preset_mfd, 1)

create_in_core_backward_single_frequency_channel(f, wl, power, preset_mfd) ==
    create_in_core_single_frequency_channel(f, wl, power, preset_mfd, -1)

create_forward_pump_channel(f, wl, power, preset_mfd) ==
    create_in_core_single_frequency_channel(f, wl, power, preset_mfd, 1)

\* faulty variant: the backward pump factory copied from the forward one, direction kept
create_backward_pump_channel_forward(f, wl, power, preset_mfd) ==
    create_in_core_single_frequency_channel(f, wl, power, preset_mfd, 1)

create_backward_pump_channel(f, wl, power, preset_mfd) ==
    create_in_core_single_frequency_channel(f, wl, power, preset_mfd, -1)

create_in_core_forward_finite_bandwidth_channel(f, wl, wl_bandwidth, power, preset_mfd) ==
    create_in_core_finite_bandwidth_channel(f, wl, wl_bandwidth, power, preset_mfd, 1)

create_in_core_backward_finite_bandwidth_channel(f, wl, wl_bandwidth, power, preset_mfd) ==
    create_in_core_finite_bandwidth_channel(f, wl, wl_bandwidth, power, preset_mfd, -1)

\* ------------------------------------------------- the fiber's operations
Wavelengths == {RInt(976), RInt(1030)}
InputPowers == {RZero, RInt(2)}
PresetMfds == {RZero, RInt(6)}
WlBandwidths == {RInt(2)}
BackgroundLosses == {RZero, Rat(1, 10)}
EffectiveAreaTypes == {"core_area", "gaussian", "bessel", "step_index"}

NoArea == [called |-> FALSE, area_type |-> "none", freq |-> RZero, res |-> Raise("none")]
NoChannel == [factory |-> "none", wl |-> RZero, wl_bandwidth |-> RZero, power |-> RZero,
              preset_mfd |-> RZero, channel |-> None]

\* the fiber of the simulation: 2 m long, 3 um core radius
TheFiber == ActiveFiber(RInt(2), RInt(3), Rat(1, 10), Rat(1, 5))

\* fiber.effective_area_type = t, the attribute __init__ sets to 'core_area'
SetEffectiveAreaType ==
    /\ \E t \in EffectiveAreaTypes : fiber' = [fiber EXCEPT !.effective_area_type = t]
    /\ UNCHANGED <<area_out, made, guess_vars, sim_vars, shared_vars>>

NonlinearEffectiveArea ==
    /\ \E wl \in Wavelengths :
          area_out' = [called |-> TRUE,
                       area_type |-> fiber.effective_area_type,
                       freq |-> wl_to_freq(wl),
                       res |-> nonlinear_effective_area(fiber, wl_to_freq(wl))]
    /\ UNCHANGED <<fiber, made, guess_vars, sim_vars, shared_vars>>

Created(factory, wl, wl_bandwidth, power, preset_mfd, channel) ==
    /\ made' = [factory |-> factory, wl |-> wl, wl_bandwidth |-> wl_bandwidth,
                power |-> power, preset_mfd |-> preset_mfd, channel |-> channel]
    /\ UNCHANGED <<fiber, area_out, guess_vars, sim_vars, shared_vars>>

CreateForwardSingleFrequency ==
    \E wl \in Wavelengths, power \in InputPowers, preset_mfd \in PresetMfds :
        Created("create_in_core_forward_single_frequency_channel", wl, RZero, power, preset_mfd,
                create_in_core_forward_single_frequency_channel(fiber, wl, power, preset_mfd))

CreateBackwardSingleFrequency ==
    \E wl \in Wavelengths, power \in InputPowers, preset_mfd \in PresetMfds :
        Created("create_in_core_backward_single_frequency_channel", wl, RZero, power, preset_mfd,
                create_in_core_backward_single_frequency_channel(fiber, wl, power, preset_mfd))

CreateForwardPump ==
    \E wl \in Wavelengths, power \in InputPowers, preset_mfd \in PresetMfds :
        Created("create_forward_pump_channel", wl, RZero, power, preset_mfd,
                create_forward_pump_channel(fiber, wl, power, preset_mfd))

CreateBackwardPump ==
    \E wl \in Wavelengths, power \in InputPowers, preset_mfd \in PresetMfds :
        Created("create_backward_pump_channel", wl, RZero, power, preset_mfd,
                create_backward_pump_channel(fiber, wl, power, preset_mfd))

CreateForwardFiniteBandwidth ==
    \E wl \in Wavelengths, bw \in WlBandwidths, power \in InputPowers, preset_mfd \in PresetMfds :
        Created("create_in_core_forward_finite_bandwidth_channel", wl, bw, power, preset_mfd,
                create_in_core_forward_finite_bandwidth_channel(fiber, wl, bw, power, preset_mfd))

CreateBackwardFiniteBandwidth ==
    \E wl \in Wavelengths, bw \in WlBandwidths, power \in InputPowers, preset_mfd \in PresetMfds :
        Created("create_in_core_backward_finite_bandwidth_channel", wl, bw, power, preset_mfd,
                create_in_core_backward_finite_bandwidth_channel(fiber, wl, bw, power, preset_mfd))

NextFiber ==
    \/ SetEffectiveAreaType
    \/ NonlinearEffectiveArea
    \/ CreateForwardSingleFrequency
    \/ CreateBackwardSingleFrequency
    \/ CreateForwardPump
    \/ CreateBackwardPump
    \/ CreateForwardFiniteBandwidth
    \/ CreateBackwardFiniteBandwidth

\* ------------------------------------------------------ Channels registry
\* Channels.__init__: the seven category lists, in slice-map order.
ChannelLists ==
    <<"forward_signals", "co_pumps", "counter_pumps", "forward_ase", "backward_ase",
      "forward_raman", "backward_raman">>

Channels ==
    [forward_signals |-> <<>>, co_pumps |-> <<>>, counter_pumps |-> <<>>,
     forward_ase |-> <<>>, backward_ase |-> <<>>,
     forward_raman |-> <<>>, backward_raman |-> <<>>]

\* helper_funcs.SIMULATION_MIN_POWER: the input power floor of ASE and Raman seeds
SIMULATION_MIN_POWER == Rat(1, 1000000)

ChannelCounts(reg) == [c \in 1..7 |-> Len(reg[ChannelLists[c]])]
TotalChannels(reg) == SumTo(ChannelCounts(reg), 7)

RECURSIVE AllFrom(_, _)
AllFrom(reg, c) == IF c > 7 THEN <<>> ELSE reg[ChannelLists[c]] \o AllFrom(reg, c + 1)
\* every channel, flattened in slice-map order
all_channels(reg) == AllFrom(reg, 1)

get_slices(reg) == PartitionSlices(ChannelCounts(reg))
get_input_powers(reg) ==
    LET chs == all_channels(reg) IN [i \in 1..Len(chs) |-> chs[i].input_power]
get_wavelengths(reg) ==
    LET chs == all_channels(reg) IN [i \in 1..Len(chs) |-> freq_to_wl(chs[i].frequency)]

\* Channels.add_*: build the channel(s) with the fiber's factory and append
\* them to the category's list.
add_forward_signal(reg, f, wl, power, mfd) ==
    [reg EXCEPT !.forward_signals =
        Append(@, create_in_core_forward_single_frequency_channel(f, wl, power, mfd))]

add_pulsed_forward_signal(reg, f, wl, power, f_rep, fwhm_duration, mfd) ==
    [reg EXCEPT !.forward_signals =
        Append(@, create_in_core_forward_single_frequency_channel(f, wl, power, mfd))]

Channels_add_forward_pump(reg, f, wl, power, mfd) ==
    [reg EXCEPT !.co_pumps = Append(@, create_forward_pump_channel(f, wl, power, mfd))]

Channels_add_backward_pump(reg, f, wl, power, mfd) ==
    [reg EXCEPT !.counter_pumps = Append(@, create_backward_pump_channel(f, wl, power, mfd))]

\* n_bins equal-width bins over [wl_start, wl_end], each a forward and a
\* backward finite-bandwidth channel at the power floor.
Channels_add_ase(reg, f, wl_start, wl_end, n_bins) ==
    LET bw == RDiv(RSub(wl_end, wl_start), RInt(n_bins))
        center(k) == RAdd(wl_start, RDiv(RMul(RInt(2 * k - 1), bw), RInt(2)))
    IN  [reg EXCEPT
            !.forward_ase = @ \o [k \in 1..n_bins |->
                create_in_core_forward_finite_bandwidth_channel(
                    f, center(k), bw, SIMULATION_MIN_POWER, RZero)],
            !.backward_ase = @ \o [k \in 1..n_bins |->
                create_in_core_backward_finite_bandwidth_channel(
                    f, center(k), bw, SIMULATION_MIN_POWER, RZero)]]

\* one forward Raman channel, and one backward if backward Raman is allowed
Channels_add_raman(reg, f, input_power, backward_raman_allowed) ==
    LET raman_wl == RInt(1080)
    IN  [reg EXCEPT
            !.forward_raman = Append(@,
                create_in_core_forward_single_frequency_channel(f, raman_wl, input_power, RZero)),
            !.backward_raman =
                IF backward_raman_allowed
                    THEN Append(@, create_in_core_backward_single_frequency_channel(
                                       f, raman_wl, input_power, RZero))
                    ELSE @]

\* ------------------------------------- FiberAmplifierSimulation[WithRaman]
\* Largest size of the simulation object's history: the channels added plus
\* the run() calls made.
MaxSimSize == 4

EmptyDict == <<>>

\* no solve_bvp call yet
NoCalls == [count |-> 0, z |-> <<>>, guess |-> <<>>, tol |-> RZero, status |-> 0]

Returned(op) == [op |-> op, outcome |-> "returned", exc |-> "none"]
Raised(op, exc) == [op |-> op, outcome |-> "raised", exc |-> exc]

SimPowers == {RInt(1), RInt(2)}

\* The add_* methods forward to the registry; nothing in them looks at
\* self.slices or at whether run() has been called.
Added(op, reg) ==
    /\ TotalChannels(reg) + bvp_calls.count <= MaxSimSize
    /\ channels' = reg
    /\ last_call' = Returned(op)
    /\ UNCHANGED <<heap, sim_slices, results, bvp_calls, guess_vars, fiber_vars, shared_vars>>

add_cw_signal ==
    /\ \E power \in SimPowers :
          Added("add_cw_signal", add_forward_signal(channels, fiber, RInt(1030), power, RZero))
    /\ UNCHANGED raman_flags

add_forward_pump ==
    /\ Added("add_forward_pump", Channels_add_forward_pump(channels, fiber, RInt(976), RInt(4), RZero))
    /\ UNCHANGED raman_flags

add_backward_pump ==
    /\ Added("add_backward_pump", Channels_add_backward_pump(channels, fiber, RInt(976), RInt(6), RZero))
    /\ UNCHANGED raman_flags

add_ase ==
    /\ Added("add_ase", Channels_add_ase(channels, fiber, RInt(1000), RInt(1100), 1))
    /\ UNCHANGED raman_flags

add_pulsed_signal ==
    /\ Added("add_pulsed_signal",
             add_pulsed_forward_signal(channels, fiber, RInt(1064), RInt(3), RInt(1), RInt(1), RZero))
    /\ UNCHANGED raman_flags

add_raman ==
    \E backward_raman_allowed \in BOOLEAN :
        /\ Added("add_raman",
                 Channels_add_raman(channels, fiber, SIMULATION_MIN_POWER, backward_raman_allowed))
        /\ raman_flags' = [raman_is_included |-> TRUE,
                           backward_raman_allowed |-> backward_raman_allowed]

\* _start_z(npoints) = np.linspace(0, fiber.length, npoints)
start_z(f, npoints) == linspace(f.length, npoints)

\* faulty variant: the slice map updated in place (self.slices.update(...)) instead of
\* rebound to the registry's new dict
init_slices_in_place(h, ref, reg) ==
    [heap |-> [h EXCEPT ![ref] = get_slices(reg)], ref |-> ref]

\* _init_slices: self.slices = self.channels.get_slices(), a new dict; the
\* old one is left as it was for whoever still holds it.
init_slices(h, ref, reg) ==
    [heap |-> Append(h, get_slices(reg)), ref |-> Len(h) + 1]

\* scipy.integrate.solve_bvp: returns a solution object whatever happened;
\* status 0 is convergence, 1 is max_nodes exceeded, 2 a singular Jacobian.
\* The arrays are those of its last iteration, here the uninterpreted result
\* of the call with these arguments (call number `call`).
SolverStatuses == {0, 1, 2}
solve_bvp(rhs, bc, z, guess, tol, status, call) ==
    [x |-> Term("sol.x", <<call>>), y |-> Term("sol.y", <<call>>),
     status |-> status, success |-> (status = 0)]

\* SimulationResult(sol): wraps the solution's z grid and power array.
SimulationResult(sol) ==
    [z |-> sol.x, powers |-> sol.y, status |-> sol.status, success |-> sol.success,
     upper_level_fraction |-> None, slices |-> 0, wavelengths |-> <<>>,
     is_passive_fiber |-> FALSE, backward_raman_allowed |-> TRUE]

\* _add_wls_and_slices_to_result, with the Raman subclass's extra field
add_wls_and_slices_to_result(res, ref, reg, flags) ==
    [res EXCEPT !.slices = ref,
                !.wavelengths = get_wavelengths(reg),
                !.is_passive_fiber = FALSE,
                !.backward_raman_allowed = flags.backward_raman_allowed]

\* _finalize(sol, upper_level_func): no look at sol.status or sol.success
finalize(sol, ref, reg, flags) ==
    LET res == [SimulationResult(sol) EXCEPT
                    !.upper_level_fraction = Term("upper_level_func", <<sol.y>>)]
    IN  add_wls_and_slices_to_result(res, ref, reg, flags)

run ==
    /\ TotalChannels(channels) + bvp_calls.count < MaxSimSize
    /\ \E npoints \in {3} :
        LET sl == init_slices(heap, sim_slices, channels)
            boundary_condition_residual == Term("BasicBoundaryConditions", <<channels>>)
            rate_equation_rhs == Term("rate_equation_rhs", <<channels>>)
            guess_maker == InitialGuessMaker(get_input_powers(channels), sl.heap[sl.ref],
                                             start_z(fiber, npoints), DEFAULT_GUESS_PARAMS)
            guess == make_guess(guess_maker)
            sol(status) == solve_bvp(rate_equation_rhs, boundary_condition_residual,
                                     start_z(fiber, npoints), guess.val, Rat(1, 1000), status,
                                     bvp_calls.count + 1)
        IN  /\ heap' = sl.heap
            /\ sim_slices' = sl.ref
            /\ IF guess.ok
                 THEN \E status \in SolverStatuses :
                      /\ bvp_calls' = [count |-> bvp_calls.count + 1,
                                       z |-> start_z(fiber, npoints),
                                       guess |-> guess.val,
                                       tol |-> Rat(1, 1000),
                                       status |-> status]
                      /\ results' = Append(results, finalize(sol(status), sl.ref, channels, raman_flags))
                      /\ last_call' = Returned("run")
                 ELSE /\ UNCHANGED <<bvp_calls, results>>
                      /\ last_call' = Raised("run", guess.exc)
    /\ UNCHANGED <<channels, raman_flags, guess_vars, fiber_vars, shared_vars>>

NextSim ==
    \/ add_cw_signal
    \/ add_forward_pump
    \/ add_backward_pump
    \/ add_ase
    \/ add_pulsed_signal
    \/ add_raman
    \/ run

NextGuess == Construct \/ MakeGuess \/ Discard

NoCall == [op |-> "__init__", outcome |-> "returned", exc |-> "none"]
NoFlags == [raman_is_included |-> FALSE, backward_raman_allowed |-> TRUE]

\* The simulation object after __init__ (self.slices = {}, an empty registry),
\* no guess maker built by hand and no fiber method called.
Init ==
    /\ maker = NoMaker /\ guess_out = NotCalled
    /\ fiber = TheFiber /\ area_out = NoArea /\ made = NoChannel
    /\ channels = Channels /\ raman_flags = NoFlags
    /\ heap = <<EmptyDict>> /\ sim_slices = 1
    /\ results = <<>> /\ bvp_calls = NoCalls /\ last_call = NoCall
    /\ default_params = DEFAULT_GUESS_PARAMS /\ makers = <<>> /\ guesses = <<>>

\* The same, for a fiber with either background loss.
InitAnyFiber ==
    /\ maker = NoMaker /\ guess_out = NotCalled
    /\ \E loss \in BackgroundLosses : fiber = ActiveFiber(RInt(2), RInt(3), loss, Rat(1, 5))
    /\ area_out = NoArea /\ made = NoChannel
    /\ channels = Channels /\ raman_flags = NoFlags
    /\ heap = <<EmptyDict>> /\ sim_slices = 1
    /\ results = <<>> /\ bvp_calls = NoCalls /\ last_call = NoCall
    /\ default_params = DEFAULT_GUESS_PARAMS /\ makers = <<>> /\ guesses = <<>>

\* The simulation: add_* and run() calls on one simulation object.
Spec == Init /\ [][NextSim]_vars

\* The guess maker: instances built from drawn inputs, make_guess() on each.
SpecGuess == Init /\ [][NextGuess]_vars

\* The fiber: its effective-area dispatch and its channel factories.
SpecFiber == InitAnyFiber /\ [][NextFiber]_vars

\* Several guess makers, built with and without params of their own.
SpecShared == Init /\ [][NextShared]_vars

\* ------------------------------------------------- properties: the guess maker
Self == maker.self
NChannels == Len(Self.input_powers)
Shape == Self.params.signal_gain_shape
Recognized == Shape \in {"linear", "exponential"}
Called == maker.made /\ guess_out.called
Guess == guess_out.res.val
LastCol == Len(Self.z)
\* the rows (1-based) of a category in the input-power vector
RowsOf(key) == {i \in 1..NChannels : Self.slices[key].start < i /\ i <= Self.slices[key].stop}
Width(key) == Self.slices[key].stop - Self.slices[key].start
Input(i) == Self.input_powers[i]

\* C2: make_guess() returns an array of shape (total_channel_count,
\* len(z_grid)) for every non-empty channel configuration whose slices
\* partition [0, total_channel_count) and every z grid of length >= 2.
GuessShapeProperty ==
    (Called /\ Recognized /\ NChannels >= 1 /\ LastCol >= 2
            /\ IsPartition(Self.slices, NChannels))
        => /\ guess_out.res.ok
           /\ Len(Guess) = NChannels
           /\ \A i \in 1..Len(Guess) : Len(Guess[i]) = LastCol

GuessShapeWitness ==
    /\ Called /\ Recognized /\ IsPartition(Self.slices, NChannels)
    /\ NChannels = MaxChannels /\ LastCol = MaxGridPoints
    /\ guess_out.res.ok
    /\ Width("forward_ase_slice") = 2

\* the pump power the signal guess converts: all co- and counter-pump inputs
PumpSum ==
    RAdd(RSum(Take(Self.input_powers, Self.slices.co_pump_slice)),
         RSum(Take(Self.input_powers, Self.slices.counter_pump_slice)))

\* the claimed value of row i of a category at z = 0 and at z = L
StartOf(key, i) ==
    CASE key = "counter_pump_slice" -> RMul(Rat(1, 100), Input(i))
      [] key = "backward_ase_slice" -> Rat(1, 1000)
      [] OTHER -> Input(i)

EndOf(key, i) ==
    CASE key = "signal_slice" -> RAdd(Input(i), RMul(Rat(1, 2), PumpSum))
      [] key = "co_pump_slice" -> RMul(Rat(1, 100), Input(i))
      [] key = "counter_pump_slice" -> Input(i)
      [] key = "forward_ase_slice" -> Rat(1, 1000)
      [] key = "backward_ase_slice" -> Input(i)
      [] key = "forward_raman_slice" -> RMul(RInt(2), Input(i))
      [] OTHER -> Input(i)

UnrecognizedShapeFails ==
    (Called /\ ~Recognized)
        => /\ ~guess_out.res.ok
           /\ guess_out.res.exc = "RuntimeError"
           /\ Guess = <<>>

UnrecognizedShapeWitness ==
    /\ Called /\ ~Recognized
    /\ Width("signal_slice") = 0 /\ NChannels = MaxChannels
    /\ ~guess_out.res.ok

\* C5: a slice map that does not partition [0, len(input_powers)) makes the
\* construction of the guess fail.
SliceMismatchFailsFast ==
    (Called /\ Recognized /\ ~IsPartition(Self.slices, NChannels))
        => ~guess_out.res.ok
\* what each category's make_*_guess returns for this maker
CategoryGuess(c) ==
    CASE c = 1 -> make_signal_guess(Self).val
      [] c = 2 -> make_co_pump_guess(Self)
      [] c = 3 -> make_counter_pump_guess(Self)
      [] c = 4 -> make_forward_ase_guess(Self)
      [] c = 5 -> make_backward_ase_guess(Self)
      [] c = 6 -> make_forward_raman_guess(Self)
      [] OTHER -> make_backward_raman_guess(Self)

\* the guesses of the categories c..7 that have channels, one after the other
RECURSIVE StackNonEmpty(_)
StackNonEmpty(c) ==
    IF c > 7 THEN <<>>
    ELSE IF Width(Categories[c]) = 0 THEN StackNonEmpty(c + 1)
    ELSE CategoryGuess(c) \o StackNonEmpty(c + 1)

SomeCategoryEmpty == \E c \in 1..7 : Width(Categories[c]) = 0

\* C8: with one or more categories empty, make_guess() completes without
\* error and the array is the guesses of the non-empty categories alone,
\* stacked in category order: a zero-width slice adds, moves and changes no row.
ZeroWidthSlicesAreNoOps ==
    (Called /\ Recognized /\ IsPartition(Self.slices, NChannels) /\ SomeCategoryEmpty)
        => /\ guess_out.res.ok
           /\ Guess = StackNonEmpty(1)

ZeroWidthWitness ==
    /\ Called /\ Recognized /\ IsPartition(Self.slices, NChannels)
    /\ Width("signal_slice") = 0 /\ Width("forward_ase_slice") = 0
    /\ Width("co_pump_slice") = 1 /\ Width("counter_pump_slice") = 1
    /\ Width("backward_raman_slice") = 1
    /\ guess_out.res.ok /\ Len(Guess) = 3
\* ------------------------------------------------------ properties: the fiber
\* C9: with effective_area_type 'bessel', nonlinear_effective_area fails with
\* NotImplementedError for every frequency and returns no area; with
\* 'core_area' or 'gaussian' it returns an area and raises nothing.
BesselNotImplemented ==
    area_out.called =>
        /\ area_out.area_type = "bessel" =>
              /\ ~area_out.res.ok
              /\ area_out.res.exc = "NotImplementedError"
        /\ area_out.area_type \in {"core_area", "gaussian"} =>
              /\ area_out.res.ok
              /\ area_out.res.val # None

BesselWitness ==
    /\ area_out.called /\ area_out.area_type = "bessel"
    /\ ~area_out.res.ok
    /\ fiber.effective_area_type = "gaussian"

ForwardFactories ==
    {"create_in_core_forward_single_frequency_channel", "create_forward_pump_channel",
     "create_in_core_forward_finite_bandwidth_channel"}
BackwardFactories ==
    {"create_in_core_backward_single_frequency_channel", "create_backward_pump_channel",
     "create_in_core_backward_finite_bandwidth_channel"}
FiniteBandwidthFactories ==
    {"create_in_core_forward_finite_bandwidth_channel",
     "create_in_core_backward_finite_bandwidth_channel"}

\* C10: a channel made by a factory has direction +1 (forward factories) or
\* -1 (backward factories); a single-frequency channel has bandwidth 0; the
\* wavelength (as its frequency), the input power and the fiber's background
\* loss reach the channel unchanged.
FactoryDirections ==
    made.factory # "none" =>
        /\ made.channel.direction \in {1, -1}
        /\ made.factory \in ForwardFactories => made.channel.direction = 1
        /\ made.factory \in BackwardFactories => made.channel.direction = -1
        /\ made.factory \notin FiniteBandwidthFactories =>
              made.channel.frequency_bandwidth = RZero
        /\ made.channel.frequency = wl_to_freq(made.wl)
        /\ made.channel.input_power = made.power
        /\ made.channel.background_loss = fiber.background_loss

FactoryWitness ==
    /\ made.factory = "create_backward_pump_channel"
    /\ made.channel.direction = -1
    /\ made.power = RInt(2)
    /\ fiber.background_loss = Rat(1, 10)
\* ------------------------------------------------- properties: the simulation
AddOps ==
    {"add_cw_signal", "add_forward_pump", "add_backward_pump", "add_ase",
     "add_pulsed_signal", "add_raman"}

\* the last call was a run() whose solve_bvp call reported no convergence
SolverFailed == last_call.op = "run" /\ bvp_calls.count > 0 /\ bvp_calls.status # 0

\* C1: whenever solve_bvp reports that it did not converge, run() ends in a
\* failure and no SimulationResult is built from that solution.
SolverFailurePropagates ==
    /\ SolverFailed => last_call.outcome = "raised"
    /\ \A i \in 1..Len(results) : results[i].status = 0

\* run() has computed the slices at least once
SlicesComputed == sim_slices # 1

\* C6: once run() has computed the slices, an add_* call is an error and
\* leaves the registered channels as they were.
RegistryFrozenAfterRun ==
    [][(SlicesComputed /\ last_call'.op \in AddOps)
          => (channels' = channels /\ last_call'.outcome = "raised")]_vars

\* what a SimulationResult shows its holder; its slices are the dict it refers to
ResultView(r, h) ==
    [z |-> r.z, powers |-> r.powers, status |-> r.status,
     upper_level_fraction |-> r.upper_level_fraction,
     slices |-> h[r.slices], wavelengths |-> r.wavelengths,
     is_passive_fiber |-> r.is_passive_fiber,
     backward_raman_allowed |-> r.backward_raman_allowed]

EarlierResultsKept ==
    \A i \in 1..Len(results) :
        /\ i <= Len(results')
        /\ ResultView(results'[i], heap') = ResultView(results[i], heap)

\* right after a run(): the slice map, the guess handed to the solver and the
\* result's slices and wavelengths are those of the registry as it is now
FreshlyDerived ==
    last_call.op = "run" =>
        /\ last_call.outcome = "returned"
        /\ heap[sim_slices] = get_slices(channels)
        /\ bvp_calls.z = start_z(fiber, Len(bvp_calls.z))
        /\ bvp_calls.guess =
              make_guess(InitialGuessMaker(get_input_powers(channels), get_slices(channels),
                                           bvp_calls.z, DEFAULT_GUESS_PARAMS)).val
        /\ Len(results) = bvp_calls.count
        /\ heap[results[Len(results)].slices] = get_slices(channels)
        /\ results[Len(results)].wavelengths = get_wavelengths(channels)

\* C7: every run() derives the slice map and the guess from the registry as
\* it is at that call, and no step changes what an earlier SimulationResult
\* holds (slices, wavelengths, powers, flags).
RunsAreIndependent == []FreshlyDerived /\ [][EarlierResultsKept]_vars

RunsAreIndependentWitness ==
    /\ Len(results) = 2
    /\ last_call.op = "run"
    /\ heap[results[1].slices] # heap[results[2].slices]
    /\ results[1].wavelengths # results[2].wavelengths
    /\ Len(results[1].wavelengths) > 0
\* ------------------------------------------- properties: several makers
SameInputs(j, k) ==
    /\ makers[j].input_powers = makers[k].input_powers
    /\ makers[j].slices = makers[k].slices
    /\ makers[j].z = makers[k].z

DefaultsIntact == default_params = DEFAULT_GUESS_PARAMS

EqualGuessesFromEqualInputs ==
    \A j, k \in 1..Len(makers) :
        (/\ makers[j].shared /\ makers[k].shared
         /\ SameInputs(j, k)
         /\ guesses[j].called /\ guesses[k].called)
            => guesses[j].res = guesses[k].res

CallerObjectsKept ==
    /\ default_params' = default_params
    /\ \A k \in 1..Len(makers) :
          /\ makers'[k].input_powers = makers[k].input_powers
          /\ makers'[k].slices = makers[k].slices
          /\ guesses[k].called => guesses'[k] = guesses[k]

\* C11: constructing makers and calling make_guess() on them, in any number
\* and order, never changes the shared DEFAULT_GUESS_PARAMS dict, a caller's
\* input-power vector or slice map, nor the guess an instance already gave;
\* two makers built without params from equal inputs return equal guesses
\* whatever other makers were built and run in between.
DefaultParamsNotMutated ==
    [](DefaultsIntact /\ EqualGuessesFromEqualInputs) /\ [][CallerObjectsKept]_vars

\* two default makers with equal inputs gave their guess, and between them a
\* maker with an exponential gain shape of its own gave a different one
DefaultParamsWitness ==
    /\ Len(makers) = 3
    /\ makers[1].shared /\ makers[3].shared /\ SameInputs(1, 3) /\ SameInputs(1, 2)
    /\ ~makers[2].shared /\ makers[2].own.signal_gain_shape = "exponential"
    /\ guesses[1].called /\ guesses[2].called /\ guesses[3].called
    /\ guesses[1].res.ok /\ guesses[2].res.ok /\ guesses[3].res.ok
    /\ guesses[2].res # guesses[1].res
    /\ Len(makers[1].input_powers) = 7

\* ------------------------------------- properties: the area dispatch
\* C12: for every value effective_area_type can be set to, a call of
\* nonlinear_effective_area either returns an effective area or fails with an
\* error; it never completes without a value.
NonlinearEffectiveAreaTotal ==
    area_out.called => (~area_out.res.ok \/ area_out.res.val # None)

====
